---------------------------- MODULE Spec2Model ----------------------------
(***************************************************************************)
(* CompDesign-Studio: the fractal view (AlgorithmicDesigner: drawTree,     *)
(* renderFrame, the animation effect and its controls), the parametric view*)
(* (ParametricDesigner: calculatePoints and the controls of params), the   *)
(* service call generateSvgFromPrompt and the image-edit view (ImageEditor).*)
(*                                                                         *)
(* Numbers.  growth is kept in hundredths (0.01 = 1, 1.0 = 100), the length*)
(* multiplier in percent, a branch length as the numerator of              *)
(* startLen * lengthMultiplier^currentDepth / 100^currentDepth, and the    *)
(* growth factor min(1, growth * depth / 2) in two-hundredths.             *)
(* Date.now() is a reading strictly newer than the last one stored.        *)
(***************************************************************************)
EXTENDS Integers, Sequences, FiniteSets, TLC

VARIABLES
    growth,        \* useState(0): animation progress, in hundredths
    isAnimating,   \* useState(true)
    enableWind,    \* useState(false)
    time,          \* useState(0): last Date.now() stored by setTime
    params,        \* useState<FractalParams>
    pending,       \* requestAnimationFrame callbacks not yet run: {[id, env]}
    animationRef,  \* animationRef.current
    mounted,       \* the component is mounted
    frame,         \* the values the last renderFrame drew the tree from
    sfParams,      \* ParametricDesigner: the SuperformulaParams given to calculatePoints
    sfPoints,      \* ParametricDesigner: the points calculatePoints returned
    svgResponse,   \* generateSvgFromPrompt: the outcome of ai.models.generateContent
    svgResult,     \* generateSvgFromPrompt: what its promise settled to
    editorPrompt,  \* ImageEditor: prompt
    selectedImage, \* ImageEditor: selectedImage
    generatedImage, \* ImageEditor: generatedImage
    editorLoading, \* ImageEditor: isLoading
    editorError,   \* ImageEditor: error
    editorHistory, \* ImageEditor: history
    editRequests,  \* ImageEditor: calls of editImage awaited by handleGenerate
    reading,       \* ImageEditor: files a FileReader is reading
    designerPrompt,  \* AiDesigner: prompt
    designerLoading, \* AiDesigner: isLoading
    currentSvg,      \* AiDesigner: currentSvg
    designerHistory, \* AiDesigner: history
    viewMode,        \* AiDesigner: viewMode
    svgRequests,     \* AiDesigner: calls of generateSvgFromPrompt awaited by handleGenerate
    mode             \* App: mode, the view that is mounted

viewVars == <<growth, isAnimating, enableWind, time, params, pending,
              animationRef, mounted, frame>>
sfVars == <<sfParams, sfPoints>>
svgVars == <<svgResponse, svgResult>>
editorVars == <<editorPrompt, selectedImage, generatedImage, editorLoading,
                editorError, editorHistory, editRequests, reading>>
designerVars == <<designerPrompt, designerLoading, currentSvg, designerHistory,
                  viewMode, svgRequests>>
aiVars == <<svgVars, editorVars, designerVars, mode>>
vars == <<viewVars, sfVars, aiVars>>

----------------------------------------------------------------------------
(* The AI components before they are used *)

None == [kind |-> "null"]                \* null
NoResponse == [kind |-> "none"]          \* the model was not called
NoResult == [kind |-> "pending"]         \* the promise has not settled

SvgIdle ==
    /\ svgResponse = NoResponse
    /\ svgResult = NoResult

\* ImageEditor after its first render
EditorInit ==
    /\ editorPrompt = ""
    /\ selectedImage = None
    /\ generatedImage = None
    /\ editorLoading = FALSE
    /\ editorError = None
    /\ editorHistory = <<>>
    /\ editRequests = <<>>
    /\ reading = {}

\* AiDesigner after its first render
DesignerInit ==
    /\ designerPrompt = ""
    /\ designerLoading = FALSE
    /\ currentSvg = None
    /\ designerHistory = <<>>
    /\ viewMode = "preview"
    /\ svgRequests = <<>>

----------------------------------------------------------------------------
(* Bounds of the model *)

MaxDepth == 2       \* the depth slider offers 1..MaxDepth (the code: 1..12)
MaxClock == 2       \* Date.now() readings 1..MaxClock
MaxHandles == 3     \* requestAnimationFrame handles in use at one time
MaxTreeDepth == 3   \* drawTree called alone: depth 0..MaxTreeDepth

(* Program constants *)

GrowthStep == 1       \* prev + 0.01
GrowthMax == 100      \* Math.min(..., 1)
InitialAngle == 25
InitialDepth == 10
InitialLength == 70   \* lengthMultiplier: 0.7
InitialBranches == 2
FullScale == 200      \* Math.min(1, growth * (params.depth / 2)) = 1

Angles == {InitialAngle, 45}       \* values of the angle slider (0..90)
Lengths == {InitialLength, 50}     \* values of the length slider (0.4..0.8)
Depths == 1..MaxDepth              \* values of the depth slider
Handles == 1..MaxHandles

Min(a, b) == IF a < b THEN a ELSE b
Max(a, b) == IF a > b THEN a ELSE b

RECURSIVE Pow(_, _)
Pow(b, e) == IF e = 0 THEN 1 ELSE b * Pow(b, e - 1)

----------------------------------------------------------------------------
(* drawTree *)

\* windForce = Math.sin(time * 0.002 + currentDepth) * (currentDepth * 0.5):
\* kept as the phase's two terms and the amplitude's factor
WindAngle(env, currentDepth) ==
    IF env.enableWind
    THEN [on |-> TRUE, t |-> env.time, d |-> currentDepth]
    ELSE [on |-> FALSE, t |-> 0, d |-> 0]

\* Math.min(1, growth * (params.depth / 2)), in two-hundredths
GrowthScaleUnclamped(g, d) == g * d

GrowthScale(g, d) == Min(FullScale, g * d)

\* drawnLen = len * Math.min(1, growth * (params.depth / 2)) of a segment, in
\* two-hundredths of its len
drawnLen(seg) == seg.len * seg.scale

\* ctx.lineWidth = Math.max(0.5, (params.depth - currentDepth + 1) * 0.8), in tenths
LineWidth(d, currentDepth) == Max(5, (d - currentDepth + 1) * 8)

\* the children drawTree recurses into: their relative angles, in call order
ChildAnglesFromTwo(p) ==
    IF p.branchCount >= 2 THEN <<p.angle, 0 - p.angle, 0>>
                          ELSE <<p.angle, 0 - p.angle>>

ChildAnglesLeftFirst(p) ==
    IF p.branchCount > 2 THEN <<0 - p.angle, p.angle, 0>>
                         ELSE <<0 - p.angle, p.angle>>

ChildAngles(p) ==
    IF p.branchCount > 2 THEN <<p.angle, 0 - p.angle, 0>>
                         ELSE <<p.angle, 0 - p.angle>>

\* the start of a child, (0, -drawnLen) in the frame of its parent: the
\* offset along the parent's axis as [len, scale]
ChildStartFullLength(len, scale) == [len |-> len, scale |-> FullScale]

ChildStart(len, scale) == [len |-> len, scale |-> scale]

RECURSIVE drawTree(_, _, _, _, _, _)
RECURSIVE drawChildren(_, _, _, _, _, _, _)

\* the calls of lines 297..303, one per child angle from index i on
drawChildren(env, start, nextLen, angles, i, depth, currentDepth) ==
    IF i > Len(angles) THEN <<>>
    ELSE drawTree(env, start, nextLen, angles[i], depth, currentDepth)
         \o drawChildren(env, start, nextLen, angles, i + 1, depth, currentDepth)

\* one call of drawTree: the segments it strokes, in drawing order.
\* start is the translate() offset along the parent's axis: the parent's
\* drawn length as [len, scale]
drawTree(env, start, len, angle, depth, currentDepth) ==
    LET scale == GrowthScale(env.growth, env.params.depth)
        seg == [currentDepth |-> currentDepth,
                depth |-> depth,
                start |-> start,
                len |-> len,
                angle |-> angle,
                wind |-> WindAngle(env, currentDepth),
                scale |-> scale,
                hue |-> <<160 * env.params.depth + 40 * currentDepth, env.params.depth>>,
                width |-> LineWidth(env.params.depth, currentDepth)]
    IN  IF depth < 1 THEN <<seg>>
        ELSE <<seg>> \o drawChildren(env, ChildStart(len, scale),
                                     len * env.params.lengthMultiplier,
                                     ChildAngles(env.params), 1,
                                     depth - 1, currentDepth + 1)

Origin == [len |-> 0, scale |-> 0]

\* renderFrame with a canvas: the tree is drawn from the values env that the
\* closure holds.  The state keeps those values; the segments drawn are
\* Segments of them
renderFrame(env) == [drawn |-> TRUE, env |-> env]

\* drawTree(ctx, rect.width / 2, rect.height, startLen, 0, params.depth, 0),
\* lengths in units of startLen
Segments(f) == drawTree(f.env, Origin, 1, 0, f.env.params.depth, 0)

NoFrame == [drawn |-> FALSE,
            env |-> [growth |-> 0, isAnimating |-> FALSE, enableWind |-> FALSE,
                     time |-> 0,
                     params |-> [angle |-> 0, depth |-> 0, lengthMultiplier |-> 0,
                                 branchCount |-> 0]]]

----------------------------------------------------------------------------
(* The component's state and the animation effect *)

\* the values one render of the component closes over
ViewState ==
    [growth |-> growth, isAnimating |-> isAnimating, enableWind |-> enableWind,
     time |-> time, params |-> params]

\* the effect's dependency list
EffectDepsWithoutParams(s) == <<s.growth, s.isAnimating, s.enableWind>>

EffectDeps(s) == <<s.growth, s.isAnimating, s.enableWind, s.params>>

\* cancelAnimationFrame(handle)
CancelAnimationFrame(pend, handle) == {r \in pend : r.id # handle}

\* requestAnimationFrame returns a handle no pending request holds
FreshHandle(pend, ref) ==
    CHOOSE h \in Handles :
        /\ h # ref
        /\ \A r \in pend : r.id # h
        /\ \A k \in Handles : (k < h) => (k = ref \/ \E r \in pend : r.id = k)

CanRequest(pend, ref) ==
    \E h \in Handles : h # ref /\ \A r \in pend : r.id # h

\* the effect's cleanup
EffectCleanupLeaks(pend, ref) == pend

EffectCleanup(pend, ref) == CancelAnimationFrame(pend, ref)

\* React commits the state new; when a dependency changed the effect's cleanup
\* runs and the effect runs again, requesting a frame for the new closure
Commit(new, pend, ref) ==
    /\ growth' = new.growth
    /\ isAnimating' = new.isAnimating
    /\ enableWind' = new.enableWind
    /\ time' = new.time
    /\ params' = new.params
    /\ IF EffectDeps(new) # EffectDeps(ViewState)
       THEN LET kept == EffectCleanup(pend, ref)
                h == FreshHandle(kept, ref)
            IN  /\ CanRequest(kept, ref)
                /\ pending' = kept \cup {[id |-> h, env |-> new]}
                /\ animationRef' = h
       ELSE /\ pending' = pend
            /\ animationRef' = ref

\* setGrowth(prev => Math.min(prev + 0.01, 1)) under its guard
AnimateGrowthUnclamped(env, prev) ==
    IF env.isAnimating THEN prev + GrowthStep ELSE prev

AnimateGrowthTwoSteps(env, prev) ==
    IF env.isAnimating /\ env.growth < GrowthMax
    THEN Min(prev + 2 * GrowthStep, GrowthMax)
    ELSE prev

AnimateGrowth(env, prev) ==
    IF env.isAnimating /\ env.growth < GrowthMax
    THEN Min(prev + GrowthStep, GrowthMax)
    ELSE prev

\* Date.now()
Now == time + 1

\* setTime(Date.now()) under its guard
AnimateTime(env) == IF env.enableWind THEN Now ELSE time

\* one animation frame: the callback animate of the request req
Animate(req) ==
    LET env == req.env
        ran == pending \ {req}
        h == FreshHandle(ran, animationRef)
        again == ran \cup {[id |-> h, env |-> env]}
    IN  /\ env.enableWind => time < MaxClock
        /\ CanRequest(ran, animationRef)
        /\ IF mounted
           THEN /\ frame' = renderFrame(env)
                /\ Commit([ViewState EXCEPT !.growth = AnimateGrowth(env, growth),
                                            !.time = AnimateTime(env)],
                          again, h)
           ELSE \* setState on an unmounted component does nothing and
                \* canvasRef.current is null
                /\ pending' = again
                /\ animationRef' = h
                /\ UNCHANGED <<growth, isAnimating, enableWind, time, params, frame>>
        /\ UNCHANGED <<mounted, sfVars, aiVars>>

Tick == \E req \in pending : Animate(req)

\* the wind button
ToggleWind ==
    /\ mounted
    /\ Commit([ViewState EXCEPT !.enableWind = ~enableWind], pending, animationRef)
    /\ UNCHANGED <<mounted, frame, sfVars, aiVars>>

\* the regrow button
resetAnimationStops(s) == [s EXCEPT !.growth = 0, !.isAnimating = FALSE]

resetAnimation(s) == [s EXCEPT !.growth = 0, !.isAnimating = TRUE]

Regrow ==
    /\ mounted
    /\ Commit(resetAnimation(ViewState), pending, animationRef)
    /\ UNCHANGED <<mounted, frame, sfVars, aiVars>>

\* the angle slider.  The length slider's handler is the same call with the
\* other field, setParams({...params, lengthMultiplier: v}); the view keeps the
\* initial lengthMultiplier
AngleChange ==
    \E v \in Angles \ {params.angle} :
        /\ mounted
        /\ Commit([ViewState EXCEPT !.params.angle = v], pending, animationRef)
        /\ UNCHANGED <<mounted, frame, sfVars, aiVars>>

\* the depth slider
depthOnChangeKeepsGrowth(s, v) == [s EXCEPT !.params.depth = v]

depthOnChange(s, v) == [s EXCEPT !.params.depth = v, !.growth = 0]

DepthChange ==
    \E v \in Depths \ {params.depth} :
        /\ mounted
        /\ Commit(depthOnChange(ViewState, v), pending, animationRef)
        /\ UNCHANGED <<mounted, frame, sfVars, aiVars>>

\* the view is torn down: the effect's cleanup runs
UnmountLeaks(pend, ref) == pend

UnmountCleanup(pend, ref) == EffectCleanup(pend, ref)

Unmount ==
    /\ mounted
    /\ mounted' = FALSE
    /\ pending' = UnmountCleanup(pending, animationRef)
    /\ UNCHANGED <<growth, isAnimating, enableWind, time, params, animationRef,
                   frame, sfVars, aiVars>>

NoParams == [m |-> 0, n1 |-> 0, n2 |-> 0, n3 |-> 0, a |-> 0, b |-> 0, resolution |-> 0]

InitialParams ==
    [angle |-> InitialAngle, depth |-> Min(InitialDepth, MaxDepth),
     lengthMultiplier |-> InitialLength, branchCount |-> InitialBranches]

InitialState ==
    [growth |-> 0, isAnimating |-> TRUE, enableWind |-> FALSE, time |-> 0,
     params |-> InitialParams]

\* the component after its first render and the first run of the effect
Init ==
    /\ growth = 0
    /\ isAnimating = TRUE
    /\ enableWind = FALSE
    /\ time = 0
    /\ params = InitialParams
    /\ pending = {[id |-> 1, env |-> InitialState]}
    /\ animationRef = 1
    /\ mounted = TRUE
    /\ frame = NoFrame
    /\ sfParams = NoParams
    /\ sfPoints = <<>>
    /\ SvgIdle
    /\ EditorInit
    /\ DesignerInit
    /\ mode = "ALGORITHMIC"

Next ==
    \/ Tick
    \/ ToggleWind
    \/ Regrow
    \/ AngleChange
    \/ DepthChange
    \/ Unmount

Spec == Init /\ [][Next]_vars

----------------------------------------------------------------------------
(* The animation loop under the display's refresh: a pending frame request  *)
(* is eventually served                                                     *)

LiveSpec == Init /\ [][Next]_vars /\ WF_vars(Tick)

----------------------------------------------------------------------------
(* drawTree on its own: one recomputation from chosen inputs                *)

TreeGrowths == {0, 50, 66, 67, GrowthMax}
TreeDepths == 0..MaxTreeDepth
BranchCounts == {2, 3}

TreeInit ==
    /\ growth \in TreeGrowths
    /\ isAnimating = TRUE
    /\ enableWind \in BOOLEAN
    /\ time \in 0..1
    /\ params \in [angle : Angles, depth : TreeDepths,
                   lengthMultiplier : Lengths, branchCount : BranchCounts]
    /\ pending = {}
    /\ animationRef = 0
    /\ mounted = TRUE
    /\ frame = NoFrame
    /\ sfParams = NoParams
    /\ sfPoints = <<>>
    /\ SvgIdle
    /\ EditorInit
    /\ DesignerInit
    /\ mode = "ALGORITHMIC"

\* renderFrame called once with the state as it is
DrawOnce ==
    /\ frame = NoFrame
    /\ frame' = renderFrame(ViewState)
    /\ UNCHANGED <<growth, isAnimating, enableWind, time, params, pending,
                   animationRef, mounted, sfVars, aiVars>>

TreeNext == DrawOnce

TreeSpec == TreeInit /\ [][TreeNext]_vars

----------------------------------------------------------------------------
(* calculatePoints                                                          *)
(*                                                                          *)
(* Exact on the samples where every angle is a multiple of a quarter turn   *)
(* (resolution 1, 2 or 4 dividing m) and the scales a, b are powers of two: *)
(* a number is 0, 2^(num/den), the cap 20, Infinity or NaN.  n1, n2, n3     *)
(* are in tenths, like the sliders' step.  A power below the smallest        *)
(* double, 2^-1074, is 0, as Math.pow returns it.                           *)

MaxM == 4            \* m in 0..MaxM

Scale == 150         \* const scale = 150
Center == 250        \* 250 + r * Math.cos(phi) * scale
RadiusCap == 20      \* if (r > 20) r = 20

Exponents == {5, 10, 20, 400}        \* n1, n2, n3: 0.5, 1, 2, 40
Scales == {1, 2, 4, 1073741824}      \* a, b: 1, 2, 4, 2^30
Resolutions == {1, 2, 4}

RECURSIVE Gcd(_, _)
Gcd(x, y) == IF y = 0 THEN x ELSE Gcd(y, x % y)

Abs(x) == IF x < 0 THEN 0 - x ELSE x

Zero == [kind |-> "zero", num |-> 0, den |-> 1]
Capped == [kind |-> "cap", num |-> 0, den |-> 1]
Infinite == [kind |-> "inf", num |-> 0, den |-> 1]
NaN == [kind |-> "nan", num |-> 0, den |-> 1]

\* 2^(num/den), den > 0, in lowest terms
Pow2(num, den) ==
    LET g == Gcd(Abs(num), den)
    IN  [kind |-> "pow2", num |-> num \div g, den |-> den \div g]

Log2(s) == CHOOSE e \in 0..30 : Pow(2, e) = s

\* Math.cos and Math.sin of k quarter turns
CosQ(k) == <<1, 0, 0 - 1, 0>>[(k % 4) + 1]
SinQ(k) == <<0, 1, 0, 0 - 1>>[(k % 4) + 1]

\* 2^(num/den) rounds to 0: it is at most 2^-1075, half the smallest double
Underflows(num, den) == num <= 0 - (1075 * den)

\* Math.pow(Math.abs(c / s), n) for c in {-1, 0, 1}
PowAbsRatio(c, s, n) ==
    IF c = 0 \/ Underflows(0 - (Log2(s) * n), 10)
    THEN Zero
    ELSE Pow2(0 - (Log2(s) * n), 10)

\* t1 + t2 where one of the terms is 0 (on quarter turns one of cos, sin is 0)
Sum(x, y) == IF x.kind = "zero" THEN y ELSE x

\* Math.pow(x, -1 / n1) for x = 2^(num/den).  For n1 = 0 the exponent is
\* -Infinity: the power is NaN for x = 1, Infinity for x < 1 and 0 for x > 1
PowInverse(x, n1) ==
    IF n1 # 0 THEN Pow2(0 - (x.num * 10), x.den * n1)
    ELSE IF x.num = 0 THEN NaN
    ELSE IF x.num < 0 THEN Infinite
    ELSE Zero

\* r > 20
ExceedsCap(r) ==
    \/ r.kind = "inf"
    \/ /\ r.kind = "pow2"
       /\ r.num > 4 * r.den
       /\ (r.num >= 5 * r.den \/ Pow(2, r.num) > Pow(RadiusCap, r.den))

\* t1 + t2 of sample i
TermSum(p, i) ==
    LET argQ == (p.m * i) \div p.resolution
        t1 == PowAbsRatio(CosQ(argQ), p.a, p.n2)
        t2 == PowAbsRatio(SinQ(argQ), p.b, p.n3)
    IN  Sum(t1, t2)

\* the radius of sample i
RadiusUnclamped(p, i) ==
    LET s == TermSum(p, i)
    IN  IF s.kind # "zero" THEN PowInverse(s, p.n1) ELSE Zero

Radius(p, i) ==
    LET s == TermSum(p, i)
        r == IF s.kind # "zero" THEN PowInverse(s, p.n1) ELSE Zero
    IN  IF ExceedsCap(r) THEN Capped ELSE r

\* Center + r * c * Scale for c in {-1, 0, 1}
Coordinate(r, c) ==
    IF r.kind = "nan" THEN [c |-> 0, r |-> NaN]
    ELSE IF c = 0 \/ r.kind = "zero" THEN [c |-> 0, r |-> Zero]
    ELSE [c |-> c, r |-> r]

\* phi = (i * 2 * Math.PI) / p.resolution, in quarter turns
PhiQBackwards(p, i) == (4 * (p.resolution - i)) \div p.resolution

PhiQ(p, i) == (4 * i) \div p.resolution

\* the point pushed for sample i
PointAt(p, i) ==
    LET phiQ == PhiQ(p, i)
        r == Radius(p, i)
    IN  [x |-> Coordinate(r, CosQ(phiQ)), y |-> Coordinate(r, SinQ(phiQ))]

\* the loop's last index: i <= p.resolution
LastIndexExclusive(p) == p.resolution - 1

LastIndex(p) == p.resolution

calculatePoints(p) == [k \in 1..(LastIndex(p) + 1) |-> PointAt(p, k - 1)]

OnQuarterTurns(p) == p.m % p.resolution = 0

SFInputs ==
    {p \in [m : 0..MaxM, n1 : Exponents, n2 : Exponents, n3 : Exponents,
            a : Scales, b : Scales, resolution : Resolutions] : OnQuarterTurns(p)}

SFInit ==
    /\ growth = 0
    /\ isAnimating = TRUE
    /\ enableWind = FALSE
    /\ time = 0
    /\ params = InitialParams
    /\ pending = {}
    /\ animationRef = 0
    /\ mounted = FALSE
    /\ frame = NoFrame
    /\ sfParams \in SFInputs
    /\ sfPoints = <<>>
    /\ SvgIdle
    /\ EditorInit
    /\ DesignerInit
    /\ mode = "PARAMETRIC"

\* calculatePoints called once with the parameters as they are
Calculate ==
    /\ sfPoints = <<>>
    /\ sfPoints' = calculatePoints(sfParams)
    /\ UNCHANGED <<viewVars, sfParams, aiVars>>

SFNext == Calculate

SFSpec == SFInit /\ [][SFNext]_vars

\* calculatePoints called with any n1, the value 0 outside its domain included
SFAnyInputs ==
    {p \in [m : 0..MaxM, n1 : Exponents \cup {0}, n2 : Exponents, n3 : Exponents,
            a : Scales, b : Scales, resolution : Resolutions] : OnQuarterTurns(p)}

SFAnyInit ==
    /\ growth = 0
    /\ isAnimating = TRUE
    /\ enableWind = FALSE
    /\ time = 0
    /\ params = InitialParams
    /\ pending = {}
    /\ animationRef = 0
    /\ mounted = FALSE
    /\ frame = NoFrame
    /\ sfParams \in SFAnyInputs
    /\ sfPoints = <<>>
    /\ SvgIdle
    /\ EditorInit
    /\ DesignerInit
    /\ mode = "PARAMETRIC"

SFAnySpec == SFAnyInit /\ [][SFNext]_vars

----------------------------------------------------------------------------
(* The parametric view: the params state of ParametricDesigner under its    *)
(* controls.  Exponents are in tenths.  Math.random() is u / RandomGrain    *)
(* for u in 0..RandomGrain - 1.  The points are recomputed from params by   *)
(* calculatePoints on every render (useMemo); they are no state of the view *)

RandomGrain == 1000

\* the least, a middle and the greatest value of Math.random()
RandomDraws == {0, RandomGrain \div 2, RandomGrain - 1}

PRESETS ==
    << [m |-> 5, n1 |-> 5, n2 |-> 17, n3 |-> 17, a |-> 1, b |-> 1, resolution |-> 360],
       [m |-> 4, n1 |-> 100, n2 |-> 100, n3 |-> 100, a |-> 1, b |-> 1, resolution |-> 360],
       [m |-> 6, n1 |-> 3, n2 |-> 3, n3 |-> 3, a |-> 1, b |-> 1, resolution |-> 720],
       [m |-> 8, n1 |-> 50, n2 |-> 20, n3 |-> 70, a |-> 1, b |-> 1, resolution |-> 360] >>

\* Math.floor(Math.random() * 16) + 2
RandomSymmetryWide(u) == ((u * 17) \div RandomGrain) + 2

RandomSymmetry(u) == ((u * 16) \div RandomGrain) + 2

\* parseFloat((Math.random() * span + 0.1).toFixed(1)), in tenths: toFixed
\* rounds to the nearest tenth, a half upwards
RandomExponentNoOffset(u, span) == (20 * span * u + RandomGrain) \div (2 * RandomGrain)

RandomExponent(u, span) == (20 * span * u + 3 * RandomGrain) \div (2 * RandomGrain)

handleRandomize(u1, u2, u3, u4) ==
    [m |-> RandomSymmetry(u1),
     n1 |-> RandomExponent(u2, 10),
     n2 |-> RandomExponent(u3, 5),
     n3 |-> RandomExponent(u4, 5),
     a |-> 1,
     b |-> 1,
     resolution |-> 360]

\* values of the slider of m (min 0, max 20, step 1) and of the sliders of
\* n1, n2, n3 (min 0.1, max 20, step 0.1)
SymmetryValues == {0, 1, 20}
ExponentValues == {1, 2, 200}

ParamInit ==
    /\ growth = 0
    /\ isAnimating = TRUE
    /\ enableWind = FALSE
    /\ time = 0
    /\ params = InitialParams
    /\ pending = {}
    /\ animationRef = 0
    /\ mounted = FALSE
    /\ frame = NoFrame
    /\ sfParams = PRESETS[1]
    /\ sfPoints = <<>>
    /\ SvgIdle
    /\ EditorInit
    /\ DesignerInit
    /\ mode = "PARAMETRIC"

\* a preset button
SelectPreset ==
    \E k \in 1..Len(PRESETS) :
        /\ sfParams' = PRESETS[k]
        /\ UNCHANGED <<viewVars, sfPoints, aiVars>>

\* the randomize button
Randomize ==
    \E u1 \in RandomDraws, u2 \in RandomDraws, u3 \in RandomDraws, u4 \in RandomDraws :
        /\ sfParams' = handleRandomize(u1, u2, u3, u4)
        /\ UNCHANGED <<viewVars, sfPoints, aiVars>>

\* the sliders
SymmetryChange ==
    \E v \in SymmetryValues :
        /\ sfParams' = [sfParams EXCEPT !.m = v]
        /\ UNCHANGED <<viewVars, sfPoints, aiVars>>

N1Change ==
    \E v \in ExponentValues :
        /\ sfParams' = [sfParams EXCEPT !.n1 = v]
        /\ UNCHANGED <<viewVars, sfPoints, aiVars>>

N2Change ==
    \E v \in ExponentValues :
        /\ sfParams' = [sfParams EXCEPT !.n2 = v]
        /\ UNCHANGED <<viewVars, sfPoints, aiVars>>

N3Change ==
    \E v \in ExponentValues :
        /\ sfParams' = [sfParams EXCEPT !.n3 = v]
        /\ UNCHANGED <<viewVars, sfPoints, aiVars>>

ParamNext ==
    \/ SelectPreset
    \/ Randomize
    \/ SymmetryChange
    \/ N1Change
    \/ N2Change
    \/ N3Change

ParamSpec == ParamInit /\ [][ParamNext]_vars

----------------------------------------------------------------------------
(* generateSvgFromPrompt.  A response text is a sequence of tokens: a code  *)
(* fence (three backquotes), the words xml and svg, the markup, a blank     *)

MaxTextLen == 4      \* tokens of a response text

Fence == "fence"
Blank == " "
Tokens == {Fence, "xml", "svg", "<svg/>", Blank}

\* the placeholders, word by word
ErrorSvg == <<"<svg>", "Error", "generating", "</svg>">>
FailedSvg == <<"<svg>", "Generation", "Failed", "</svg>">>

RECURSIVE TextsOfLen(_)
TextsOfLen(n) ==
    IF n = 0 THEN {<<>>}
    ELSE {Append(t, k) : t \in TextsOfLen(n - 1), k \in Tokens}

Texts == UNION {TextsOfLen(n) : n \in 0..MaxTextLen}

\* the outcomes of await ai.models.generateContent(...): a response with a
\* text (the empty text stands for the empty string and undefined), or an exception
SvgResponses ==
    {[kind |-> "text", text |-> t] : t \in Texts} \cup {[kind |-> "throw", text |-> <<>>]}

Returned(v) == [kind |-> "returned", value |-> v]
Rejected == [kind |-> "rejected", value |-> <<>>]

\* String.prototype.trim
RECURSIVE trimStart(_)
trimStart(t) == IF t # <<>> /\ Head(t) = Blank THEN trimStart(Tail(t)) ELSE t

RECURSIVE trimEnd(_)
trimEnd(t) ==
    IF t # <<>> /\ t[Len(t)] = Blank THEN trimEnd(SubSeq(t, 1, Len(t) - 1)) ELSE t

trim(t) == trimEnd(trimStart(t))

startsWith(t, prefix) ==
    Len(t) >= Len(prefix) /\ SubSeq(t, 1, Len(prefix)) = prefix

\* t without the prefix it starts with and without a fence at its end: the
\* two replace calls of one cleanup line
StripFence(t, prefix) ==
    LET rest == SubSeq(t, Len(prefix) + 1, Len(t))
    IN  IF rest # <<>> /\ rest[Len(rest)] = Fence
        THEN SubSeq(rest, 1, Len(rest) - 1)
        ELSE rest

\* the cleanup of lines 29..32
CleanSvg(text) ==
    LET c0 == trim(text)
        c1 == IF startsWith(c0, <<Fence, "xml">>) THEN StripFence(c0, <<Fence, "xml">>) ELSE c0
        c2 == IF startsWith(c1, <<Fence, "svg">>) THEN StripFence(c1, <<Fence, "svg">>) ELSE c1
        c3 == IF startsWith(c2, <<Fence>>) THEN StripFence(c2, <<Fence>>) ELSE c2
    IN  c3

\* what the promise of generateSvgFromPrompt settles to
generateSvgFromPromptRethrows(response) ==
    IF response.kind = "throw" THEN Rejected
    ELSE IF response.text = <<>> THEN Returned(ErrorSvg)
    ELSE Returned(CleanSvg(response.text))

generateSvgFromPrompt(response) ==
    IF response.kind = "throw" THEN Returned(FailedSvg)
    ELSE IF response.text = <<>> THEN Returned(ErrorSvg)
    ELSE Returned(CleanSvg(response.text))

SvgInit ==
    /\ growth = 0
    /\ isAnimating = TRUE
    /\ enableWind = FALSE
    /\ time = 0
    /\ params = InitialParams
    /\ pending = {}
    /\ animationRef = 0
    /\ mounted = FALSE
    /\ frame = NoFrame
    /\ sfParams = NoParams
    /\ sfPoints = <<>>
    /\ svgResponse \in SvgResponses
    /\ svgResult = NoResult
    /\ EditorInit
    /\ DesignerInit
    /\ mode = "AI_GENERATIVE"

\* one call of generateSvgFromPrompt runs to its end
GenerateSvg ==
    /\ svgResult = NoResult
    /\ svgResult' = generateSvgFromPrompt(svgResponse)
    /\ UNCHANGED <<viewVars, sfVars, svgResponse, editorVars, designerVars, mode>>

SvgNext == GenerateSvg

SvgSpec == SvgInit /\ [][SvgNext]_vars

----------------------------------------------------------------------------
(* ImageEditor: the image-edit view.  An image is the content of a file, an *)
(* edit result records the image and the prompt editImage was called with.  *)
(* A handler's awaited part runs as a later step of its own.                *)

HistoryLimit == 5                      \* .slice(0, 5)

Images == {1, 2}                       \* contents of image files
EditorPrompts == {"", " ", "sketch"}   \* empty, blank, a prompt

Image(i) == [kind |-> "image", data |-> i]
Edited(i, p) == [kind |-> "edited", of |-> i, prompt |-> p]
Message(m) == [kind |-> "error", message |-> m]

\* the files a user can pick or drop: images within the size limit, one that
\* is too large and one that is no image
Files ==
    {[data |-> i, large |-> FALSE, image |-> TRUE] : i \in Images}
        \cup {[data |-> 1, large |-> TRUE, image |-> TRUE],
              [data |-> 1, large |-> FALSE, image |-> FALSE]}

\* the textarea and the preset buttons
SetPrompt ==
    \E v \in EditorPrompts \ {editorPrompt} :
        /\ editorPrompt' = v
        /\ UNCHANGED <<selectedImage, generatedImage, editorLoading, editorError,
                       editorHistory, editRequests, reading>>
        /\ UNCHANGED <<viewVars, sfVars, svgVars, designerVars, mode>>

\* processFile, called by handleImageUpload and handleDrop; the drop zone and
\* its file input are rendered while no image is selected
Upload ==
    \E file \in Files :
        /\ selectedImage = None
        /\ IF file.large
           THEN /\ editorError' = Message("Image too large (Max 5MB).")
                /\ reading' = reading
           ELSE IF ~file.image
           THEN /\ editorError' = Message("Invalid file type.")
                /\ reading' = reading
           ELSE /\ editorError' = editorError
                /\ reading' = reading \cup {file.data}
        /\ UNCHANGED <<editorPrompt, selectedImage, generatedImage, editorLoading,
                       editorHistory, editRequests>>
        /\ UNCHANGED <<viewVars, sfVars, svgVars, designerVars, mode>>

\* reader.onloadend
ReadDone ==
    \E i \in reading :
        /\ reading' = reading \ {i}
        /\ selectedImage' = Image(i)
        /\ generatedImage' = None
        /\ editorError' = None
        /\ UNCHANGED <<editorPrompt, editorLoading, editorHistory, editRequests>>
        /\ UNCHANGED <<viewVars, sfVars, svgVars, designerVars, mode>>

\* the remove-image button, rendered while an image is selected
RemoveImage ==
    /\ selectedImage # None
    /\ selectedImage' = None
    /\ generatedImage' = None
    /\ UNCHANGED <<editorPrompt, editorLoading, editorError, editorHistory,
                   editRequests, reading>>
    /\ UNCHANGED <<viewVars, sfVars, svgVars, designerVars, mode>>

\* prompt.trim() is not empty
NotBlank(p) == p \notin {"", " "}

\* a sequence without its k-th element
RemoveAt(seq, k) == SubSeq(seq, 1, k - 1) \o SubSeq(seq, k + 1, Len(seq))

\* the generate button's disabled attribute
EditorGenerateDisabled == editorLoading \/ editorPrompt = "" \/ selectedImage = None

\* the generate button, disabled while isLoading || !prompt || !selectedImage:
\* handleGenerate up to its await.  A click with a blank prompt returns at
\* once and changes nothing
Generate ==
    /\ ~EditorGenerateDisabled
    /\ NotBlank(editorPrompt)
    /\ editorLoading' = TRUE
    /\ generatedImage' = None
    /\ editorError' = None
    /\ editRequests' =
            Append(editRequests, [image |-> selectedImage.data, prompt |-> editorPrompt,
                                  live |-> TRUE])
    /\ UNCHANGED <<editorPrompt, selectedImage, editorHistory, reading>>
    /\ UNCHANGED <<viewVars, sfVars, svgVars, designerVars, mode>>

\* [item, ...prev].slice(0, 5)
AddToHistory(item, prev) ==
    LET all == <<item>> \o prev
    IN  SubSeq(all, 1, Min(Len(all), HistoryLimit))

\* editImage resolved: handleGenerate after its await, the finally included.
\* original and prompt are the values of the render that started the request
EditResolve ==
    \E k \in 1..Len(editRequests) :
        LET req == editRequests[k]
            result == Edited(req.image, req.prompt)
        IN  /\ req.live
            /\ editRequests' = RemoveAt(editRequests, k)
            /\ generatedImage' = result
            /\ editorHistory' =
                    AddToHistory([original |-> Image(req.image), edited |-> result,
                                  prompt |-> req.prompt], editorHistory)
            /\ editorLoading' = FALSE
            /\ UNCHANGED <<editorPrompt, selectedImage, editorError, reading>>
            /\ UNCHANGED <<viewVars, sfVars, svgVars, designerVars, mode>>

\* editImage rejected: the catch and the finally of handleGenerate
EditReject ==
    \E k \in 1..Len(editRequests) :
        /\ editRequests[k].live
        /\ editRequests' = RemoveAt(editRequests, k)
        /\ editorError' = Message("Failed to process. Try a different prompt.")
        /\ editorLoading' = FALSE
        /\ UNCHANGED <<editorPrompt, selectedImage, generatedImage, editorHistory,
                       reading>>
        /\ UNCHANGED <<viewVars, sfVars, svgVars, designerVars, mode>>

\* a history item's button
LoadHistory ==
    \E k \in 1..Len(editorHistory) :
        /\ selectedImage' = editorHistory[k].original
        /\ generatedImage' = editorHistory[k].edited
        /\ editorPrompt' = editorHistory[k].prompt
        /\ UNCHANGED <<editorLoading, editorError, editorHistory, editRequests,
                       reading>>
        /\ UNCHANGED <<viewVars, sfVars, svgVars, designerVars, mode>>

EditorSpecInit ==
    /\ growth = 0
    /\ isAnimating = TRUE
    /\ enableWind = FALSE
    /\ time = 0
    /\ params = InitialParams
    /\ pending = {}
    /\ animationRef = 0
    /\ mounted = FALSE
    /\ frame = NoFrame
    /\ sfParams = NoParams
    /\ sfPoints = <<>>
    /\ SvgIdle
    /\ EditorInit
    /\ DesignerInit
    /\ mode = "IMAGE_EDIT"

EditorNext ==
    \/ SetPrompt
    \/ Upload
    \/ ReadDone
    \/ RemoveImage
    \/ Generate
    \/ EditResolve
    \/ EditReject
    \/ LoadHistory

EditorSpec == EditorSpecInit /\ [][EditorNext]_vars

----------------------------------------------------------------------------
(* AiDesigner: the prompt-to-SVG view.  Date.now() is the ordinal of the    *)
(* reading since the view was mounted; the two readings of one new item     *)
(* are one reading                                                          *)

MaxGenerations == 6                    \* items stored since the view was mounted

DesignHistoryLimit == 5                \* .slice(0, 5)

DesignerPrompts == {"", " ", "grid"}   \* empty, blank, a prompt

\* outcomes of the model call: an exception, an empty text, markup, fenced
\* markup and markup that holds the word Error
DesignerResponses ==
    {[kind |-> "throw", text |-> <<>>],
     [kind |-> "text", text |-> <<>>],
     [kind |-> "text", text |-> <<"<svg/>">>],
     [kind |-> "text", text |-> <<Fence, "svg", "<svg/>", "<svg/>", Fence>>],
     [kind |-> "text", text |-> <<"<svg/>", "Error">>]}

\* currentSvg when it is a string
Markup(text) == [kind |-> "svg", text |-> text]

\* result.includes("Error")
includes(text, word) == \E i \in 1..Len(text) : text[i] = word

\* the textarea
DesignerSetPrompt ==
    \E v \in DesignerPrompts \ {designerPrompt} :
        /\ designerPrompt' = v
        /\ UNCHANGED <<designerLoading, currentSvg, designerHistory, viewMode,
                       svgRequests>>
        /\ UNCHANGED <<viewVars, sfVars, svgVars, editorVars, mode>>

\* the generate button's disabled attribute
DesignerGenerateDisabled == designerLoading \/ designerPrompt = ""

\* the generate button: handleGenerate up to its await.  A click with a blank
\* prompt returns at once and changes nothing
DesignerGenerate ==
    /\ ~DesignerGenerateDisabled
    /\ NotBlank(designerPrompt)
    /\ designerLoading' = TRUE
    /\ svgRequests' = Append(svgRequests, [prompt |-> designerPrompt, live |-> TRUE])
    /\ UNCHANGED <<designerPrompt, currentSvg, designerHistory, viewMode>>
    /\ UNCHANGED <<viewVars, sfVars, svgVars, editorVars, mode>>

\* Date.now() when the next item is made
DesignerNow == IF designerHistory = <<>> THEN 1 ELSE designerHistory[1].timestamp + 1

\* [newItem, ...prev].slice(0, 5)
AddToDesignHistoryUnbounded(item, prev) == <<item>> \o prev

AddToDesignHistory(item, prev) ==
    LET all == <<item>> \o prev
    IN  SubSeq(all, 1, Min(Len(all), DesignHistoryLimit))

\* the result goes to the history: it does not hold the word Error
Successful(result) == ~includes(result, "Error")

\* generateSvgFromPrompt settled: handleGenerate after its await.  prompt is
\* the value of the render that started the request.  A rejection would end
\* handleGenerate at the await
DesignerResolve ==
    \E k \in 1..Len(svgRequests), response \in DesignerResponses :
        LET req == svgRequests[k]
            settled == generateSvgFromPrompt(response)
            result == settled.value
            newItem == [id |-> DesignerNow, prompt |-> req.prompt, svg |-> result,
                        timestamp |-> DesignerNow]
        IN  /\ req.live
            /\ svgRequests' = RemoveAt(svgRequests, k)
            /\ IF settled.kind # "returned"
               THEN UNCHANGED <<designerLoading, currentSvg, designerHistory, viewMode>>
               ELSE IF Successful(result)
               THEN /\ DesignerNow <= MaxGenerations
                    /\ designerHistory' = AddToDesignHistory(newItem, designerHistory)
                    /\ currentSvg' = Markup(result)
                    /\ viewMode' = "preview"
                    /\ designerLoading' = FALSE
               ELSE /\ currentSvg' = Markup(result)
                    /\ designerLoading' = FALSE
                    /\ UNCHANGED <<designerHistory, viewMode>>
            /\ UNCHANGED <<viewVars, sfVars, svgVars, editorVars, mode, designerPrompt>>

\* a history item's button
loadHistoryItem ==
    \E k \in 1..Len(designerHistory) :
        /\ currentSvg' = Markup(designerHistory[k].svg)
        /\ designerPrompt' = designerHistory[k].prompt
        /\ viewMode' = "preview"
        /\ UNCHANGED <<designerLoading, designerHistory, svgRequests>>
        /\ UNCHANGED <<viewVars, sfVars, svgVars, editorVars, mode>>

\* the preview and code buttons, rendered while there is a currentSvg
SetViewMode ==
    \E v \in {"preview", "code"} \ {viewMode} :
        /\ currentSvg # None
        /\ viewMode' = v
        /\ UNCHANGED <<designerPrompt, designerLoading, currentSvg, designerHistory,
                       svgRequests>>
        /\ UNCHANGED <<viewVars, sfVars, svgVars, editorVars, mode>>

DesignerNext ==
    \/ DesignerSetPrompt
    \/ DesignerGenerate
    \/ DesignerResolve
    \/ loadHistoryItem
    \/ SetViewMode

----------------------------------------------------------------------------
(* App: one view is mounted at a time.  A view that is left is unmounted:   *)
(* its state is gone.  A request it left outstanding goes on, and what its  *)
(* continuation sets when it settles is lost                                *)

MaxOrphans == 1                        \* requests outstanding at an unmount

AiModes == {"AI_GENERATIVE", "IMAGE_EDIT"}

\* the requests of a view that is unmounted
Orphaned(reqs) == [k \in 1..Len(reqs) |-> [reqs[k] EXCEPT !.live = FALSE]]

\* the navigation buttons
SetMode ==
    \E m \in AiModes \ {mode} :
        /\ mode' = m
        /\ editorPrompt' = ""
        /\ selectedImage' = None
        /\ generatedImage' = None
        /\ editorLoading' = FALSE
        /\ editorError' = None
        /\ editorHistory' = <<>>
        /\ Len(editRequests) + Len(svgRequests) <= MaxOrphans
        /\ editRequests' = Orphaned(editRequests)
        /\ reading' = {}
        /\ designerPrompt' = ""
        /\ designerLoading' = FALSE
        /\ currentSvg' = None
        /\ designerHistory' = <<>>
        /\ viewMode' = "preview"
        /\ svgRequests' = Orphaned(svgRequests)
        /\ UNCHANGED <<viewVars, sfVars, svgVars>>

\* a request of an unmounted view settles: the state setters of its
\* continuation act on a component that is gone
SettleOrphan ==
    /\ \/ \E k \in 1..Len(svgRequests) :
            /\ ~svgRequests[k].live
            /\ svgRequests' = RemoveAt(svgRequests, k)
            /\ UNCHANGED editRequests
       \/ \E k \in 1..Len(editRequests) :
            /\ ~editRequests[k].live
            /\ editRequests' = RemoveAt(editRequests, k)
            /\ UNCHANGED svgRequests
    /\ UNCHANGED <<editorPrompt, selectedImage, generatedImage, editorLoading,
                   editorError, editorHistory, reading>>
    /\ UNCHANGED <<designerPrompt, designerLoading, currentSvg, designerHistory,
                   viewMode>>
    /\ UNCHANGED <<viewVars, sfVars, svgVars, mode>>

AiInit ==
    /\ growth = 0
    /\ isAnimating = TRUE
    /\ enableWind = FALSE
    /\ time = 0
    /\ params = InitialParams
    /\ pending = {}
    /\ animationRef = 0
    /\ mounted = FALSE
    /\ frame = NoFrame
    /\ sfParams = NoParams
    /\ sfPoints = <<>>
    /\ SvgIdle
    /\ EditorInit
    /\ DesignerInit
    /\ mode = "AI_GENERATIVE"

AiNext ==
    \/ mode = "IMAGE_EDIT" /\ EditorNext
    \/ mode = "AI_GENERATIVE" /\ DesignerNext
    \/ SetMode
    \/ SettleOrphan

AiSpec == AiInit /\ [][AiNext]_vars

----------------------------------------------------------------------------
(* Properties *)

Drawn == frame.drawn

\* the segments of a full tree of the given branching and depth
FullTreeSize(branches, d) ==
    IF branches = 2 THEN Pow(2, d + 1) - 1 ELSE (Pow(3, d + 1) - 1) \div 2

\* C1: one recomputation with depth d emits exactly 2^(d+1) - 1 segments
\* when branchCount = 2 and (3^(d+1) - 1) / 2 when branchCount = 3; depth 0
\* yields the trunk alone
C1_SegmentCount ==
    Drawn =>
        LET segs == Segments(frame)
        IN  /\ Len(segs) = FullTreeSize(params.branchCount, params.depth)
            /\ (params.depth = 0 => Len(segs) = 1)

\* a ternary tree of the largest depth has been drawn
C1_Witness ==
    /\ Drawn
    /\ params.branchCount = 3
    /\ params.depth = MaxTreeDepth
    /\ Len(Segments(frame)) > 1

\* the closure of the one pending frame request is the frame last drawn: no
\* handler ran since that frame
SameClosureAsLastFrame == Drawn /\ \E req \in pending : req.env = frame.env

Grown == growth = GrowthMax
Growing == isAnimating /\ growth < GrowthMax

\* C2: with wind enabled the time used by the recomputation advances on every
\* tick, also once growth has reached 1: of two successive ticks with no user
\* input between them, the second draws the tree with a newer time
C2_WindTimeAdvances ==
    [][(Tick /\ mounted /\ enableWind /\ Grown /\ frame.env.enableWind
            /\ SameClosureAsLastFrame)
        => frame'.env.time > frame.env.time]_vars

\* C3: the first frame drawn at a depth other than the last frame's is drawn
\* with growth 0, and a depth change leaves every pending closure at growth 0
\* with the new depth
C3_DepthChangeRezeroes ==
    [][/\ (Tick /\ mounted /\ frame.env.params.depth # params.depth)
            => (frame'.env.growth = 0 /\ frame'.env.params.depth = params.depth)
       /\ DepthChange
            => (/\ growth' = 0
                /\ \A req \in pending' :
                      req.env.growth = 0 /\ req.env.params.depth = params'.depth)]_vars

\* the depth was changed after a partially grown frame and no frame was drawn
\* since
C3_Witness ==
    /\ mounted
    /\ Drawn
    /\ frame.env.growth > 0
    /\ frame.env.params.depth # params.depth
    /\ growth = 0
    /\ pending # {}

\* C4: the tree recomputed in a tick is computed from the growth and time
\* values as they stand after that tick's advances
C4_FrameUsesAdvancedState ==
    [][(Tick /\ mounted)
        => (frame'.env.growth = growth' /\ frame'.env.time = time')]_vars

\* the wind is on and the clock of the model is used up: no tick can be taken
ClockUsedUp == enableWind /\ time = MaxClock

\* resets have stopped, the view stays mounted and the clock of the model does
\* not stay used up: then growth reaches 1 and stays
GrowthCompletes ==
    \/ []<><<Regrow \/ DepthChange>>_vars
    \/ <>(~mounted)
    \/ []<>ClockUsedUp
    \/ <>[]Grown

\* C5: while GROWING every tick increases growth by the step 0.01, growth
\* eventually reaches 1 when no reset occurs, and once GROWN ticks leave it at 1
C5_GrowthAdvances ==
    /\ [][(Tick /\ mounted)
            => growth' = (IF Growing THEN growth + GrowthStep ELSE growth)]_vars
    /\ [][(Tick /\ mounted /\ Grown) => growth' = GrowthMax]_vars
    /\ GrowthCompletes

\* growth has reached 1 and a frame was drawn at 1
C5_Witness == mounted /\ Grown /\ Drawn /\ frame.env.growth = GrowthMax

\* C6: growth lies in [0, 1] in every reachable state
C6_GrowthInUnitInterval == growth >= 0 /\ growth <= GrowthMax

\* growth stands at 1 after the tick that would have passed it
C6_Witness == mounted /\ Grown /\ Drawn /\ frame.env.growth = GrowthMax - GrowthStep

\* C7: a reset (regrow or depth change) sets growth to 0 and leaves the machine
\* GROWING, the pending tick included, with the wind flag unchanged; the regrow
\* leaves the parameters unchanged too
C7_ResetEffect ==
    [][/\ (Regrow \/ DepthChange)
            => (/\ growth' = 0
                /\ isAnimating'
                /\ enableWind' = enableWind
                /\ \A req \in pending' : req.env.growth = 0 /\ req.env.isAnimating)
       /\ Regrow => params' = params
       /\ (Tick /\ mounted /\ growth = 0 /\ isAnimating) => growth' = GrowthStep]_vars

\* a reset has acted on a partially grown tree at the same depth
C7_Witness ==
    /\ mounted
    /\ Drawn
    /\ frame.env.growth > 0
    /\ frame.env.params = params
    /\ growth = 0
    /\ isAnimating

\* C8: after the view is unmounted no frame request is pending and no tick runs
C8_NoTickAfterUnmount ==
    [][/\ ~mounted => ~Tick
       /\ ~mounted' => pending' = {}]_vars

\* the view was torn down in the middle of the growth animation
C8_Witness == ~mounted /\ Drawn /\ frame.env.growth > 0 /\ growth < GrowthMax

\* every segment of a frame was computed from the frame's one snapshot
OneSnapshot(f) ==
    LET segs == Segments(f)
    IN  /\ Len(segs) = FullTreeSize(f.env.params.branchCount, f.env.params.depth)
        /\ \A i \in 1..Len(segs) :
          LET seg == segs[i]
          IN  /\ seg.scale = GrowthScale(f.env.growth, f.env.params.depth)
              /\ seg.wind = WindAngle(f.env, seg.currentDepth)
              /\ seg.len = Pow(f.env.params.lengthMultiplier, seg.currentDepth)
              /\ seg.angle \in {0, f.env.params.angle, 0 - f.env.params.angle}
              /\ seg.currentDepth + seg.depth = f.env.params.depth
              /\ seg.width = LineWidth(f.env.params.depth, seg.currentDepth)

\* C9: a parameter change takes effect on the next tick and is never applied
\* partially: the tick after it draws every segment from the parameters, wind
\* flag and growth current when it runs
C9_NextTickWholeSnapshot ==
    [][(Tick /\ mounted)
        => (/\ frame'.env.params = params
            /\ frame'.env.enableWind = enableWind
            /\ frame'.env.growth = growth
            /\ OneSnapshot(frame'))]_vars

\* a frame drawn in the middle of the growth with an edited angle, under wind
C9_Witness ==
    /\ Drawn
    /\ frame.env.growth > 0
    /\ frame.env.params.angle # InitialAngle
    /\ frame.env.enableWind

Calculated == sfPoints # <<>>

FirstIsLast == sfPoints[1] = sfPoints[Len(sfPoints)]

\* a^n2 = b^n3
EqualEndTerms == Log2(sfParams.a) * sfParams.n2 = Log2(sfParams.b) * sfParams.n3

C11_PointCountAndOrder ==
    Calculated =>
        /\ Len(sfPoints) = sfParams.resolution + 1
        /\ \A k \in 1..Len(sfPoints) :
              LET i == k - 1
                  quarter == (4 * i) \div sfParams.resolution
              IN  /\ sfPoints[k].x = Coordinate(Radius(sfParams, i), CosQ(quarter))
                  /\ sfPoints[k].y = Coordinate(Radius(sfParams, i), SinQ(quarter))

\* five points of a curve sampled every quarter turn, the second pointing along
\* +y and the fourth along -y
C11_Witness ==
    /\ Calculated
    /\ sfParams.resolution = 4
    /\ Len(sfPoints) = 5
    /\ sfPoints[2].y.c = 1
    /\ sfPoints[4].y.c = 0 - 1

\* 0 <= r <= 20 for a radius of the model
InCap(r) == r.kind \in {"zero", "cap"} \/ (r.kind = "pow2" /\ ~ExceedsCap(r))

\* C12: every point returned has finite coordinates whose radius r satisfies
\* 0 <= r <= 20, and a sample whose t1 + t2 is exactly 0 has radius 0
C12_RadiusBounded ==
    Calculated =>
        \A k \in 1..Len(sfPoints) :
            /\ InCap(sfPoints[k].x.r)
            /\ InCap(sfPoints[k].y.r)
            /\ InCap(Radius(sfParams, k - 1))
            /\ TermSum(sfParams, k - 1) = Zero =>
                  (sfPoints[k].x.r = Zero /\ sfPoints[k].y.r = Zero)

\* one sample's t1 + t2 is exactly 0 and another's radius was cut at the cap
C12_Witness ==
    /\ Calculated
    /\ \E k \in 1..Len(sfPoints) :
          TermSum(sfParams, k - 1) = Zero /\ sfPoints[k].x.r = Zero
    /\ \E k \in 1..Len(sfPoints) :
          sfPoints[k].x.r = Capped \/ sfPoints[k].y.r = Capped

\* C13: every segment's drawn length is its remaining length times
\* min(1, g * maxDepth / 2): 0 for every segment when the growth g is 0, and
\* the full remaining length, at every depth, when g >= 2 / maxDepth
C13_DrawnLength ==
    Drawn =>
        LET segs == Segments(frame)
        IN  \A i \in 1..Len(segs) :
              LET seg == segs[i]
                  remaining == Pow(params.lengthMultiplier, seg.currentDepth)
              IN  /\ seg.len = remaining
                  /\ drawnLen(seg) = remaining * Min(FullScale, growth * params.depth)
                  /\ growth = 0 => drawnLen(seg) = 0
                  /\ growth * params.depth >= FullScale
                        => drawnLen(seg) = remaining * FullScale

\* a tree drawn at full length before the growth has reached 1: the growth
\* 0.67 is past 2 / 3
C13_Witness ==
    /\ Drawn
    /\ growth < GrowthMax
    /\ growth * params.depth >= FullScale
    /\ Len(Segments(frame)) > 1
    /\ \A i \in 1..Len(Segments(frame)) :
          drawnLen(Segments(frame)[i]) = Segments(frame)[i].len * FullScale

\* C14: in every reachable state of the parametric view, after any sequence of
\* preset selections, randomize operations and slider edits, the parameters
\* satisfy resolution > 0, n1 > 0, n2 > 0, n3 > 0, a > 0, b > 0 and m >= 0
C14_ParamsValid ==
    /\ sfParams.resolution > 0
    /\ sfParams.n1 > 0
    /\ sfParams.n2 > 0
    /\ sfParams.n3 > 0
    /\ sfParams.a > 0
    /\ sfParams.b > 0
    /\ sfParams.m >= 0

\* the least random exponents, then the slider of m at its minimum: every
\* field stands at the least value a control gives it
C14_Witness ==
    /\ sfParams.m = 0
    /\ sfParams.n1 = 1
    /\ sfParams.n2 = 1
    /\ sfParams.n3 = 1
    /\ sfParams.resolution = 360

\* C15: every invocation of Randomize, however often repeated, produces m an
\* integer in [2, 17], n1 in [0.1, 10.1], n2 and n3 in [0.1, 5.1], a = b = 1
\* and the resolution 360
C15_RandomizeInBounds ==
    [][Randomize =>
        /\ sfParams'.m \in 2..17
        /\ sfParams'.n1 \in 1..101
        /\ sfParams'.n2 \in 1..51
        /\ sfParams'.n3 \in 1..51
        /\ sfParams'.a = 1
        /\ sfParams'.b = 1
        /\ sfParams'.resolution = 360]_vars

\* a randomize gave every field the greatest value it can
C15_Witness ==
    /\ sfParams.m = 17
    /\ sfParams.n1 = 101
    /\ sfParams.n2 = 51
    /\ sfParams.n3 = 51

\* a coordinate that is neither NaN nor Infinity
Finite(r) == r.kind \in {"zero", "pow2", "cap"}

\* C16: calculatePoints called with a parameter outside its domain (n1 = 0)
\* treats it as clamped at the boundary: no coordinate of a returned point is
\* NaN or Infinity
C16_OutOfRangeClamped ==
    Calculated =>
        \A k \in 1..Len(sfPoints) :
            Finite(sfPoints[k].x.r) /\ Finite(sfPoints[k].y.r)

\* a depth the recursion would be cut at: one below the greatest depth requested
DepthCap == MaxTreeDepth - 1

\* C17: the generator caps the effective depth before recursing, so that the
\* segments of one recomputation never exceed a fixed ceiling: a request
\* beyond the cap draws no segment deeper than the cap and no more segments
\* than the full tree of the cap's depth
C17_DepthCapped ==
    Drawn =>
        LET segs == Segments(frame)
        IN  /\ \A i \in 1..Len(segs) : segs[i].currentDepth <= DepthCap
            /\ Len(segs) <= FullTreeSize(params.branchCount, DepthCap)

SvgSettled == svgResult # NoResult

\* the text is a plain answer: no fence in it
Unfenced(t) == \A i \in 1..Len(t) : t[i] # Fence

\* the text is markup inside one fence pair, with or without a language word
FencedMarkup(t) ==
    \/ t = <<Fence, "<svg/>", Fence>>
    \/ /\ Len(t) = 4
       /\ t[1] = Fence
       /\ t[2] \in {"xml", "svg"}
       /\ t[3] = "<svg/>"
       /\ t[4] = Fence

\* C18: generateSvgFromPrompt returns a string for every outcome of the model
\* call: the error placeholder when the response text is empty, the failure
\* placeholder when the call throws, and otherwise the cleaned markup (a plain
\* answer without its outer blanks, a fenced answer without its fence); its
\* promise never rejects
C18_AlwaysReturnsString ==
    SvgSettled =>
        /\ svgResult.kind = "returned"
        /\ svgResponse.kind = "throw" => svgResult.value = FailedSvg
        /\ (svgResponse.kind = "text" /\ svgResponse.text = <<>>)
              => svgResult.value = ErrorSvg
        /\ (svgResponse.kind = "text" /\ svgResponse.text # <<>>)
              => /\ svgResult.value \in Texts
                 /\ svgResult.value \notin {ErrorSvg, FailedSvg}
                 /\ Unfenced(svgResponse.text)
                       => /\ svgResult.value # <<>> => Head(svgResult.value) # Blank
                          /\ svgResult.value # <<>>
                                => svgResult.value[Len(svgResult.value)] # Blank
                          /\ \E i \in 1..(Len(svgResponse.text) + 1) :
                                svgResult.value =
                                    SubSeq(svgResponse.text, i, i + Len(svgResult.value) - 1)
                 /\ FencedMarkup(svgResponse.text) => svgResult.value = <<"<svg/>">>

\* the model call threw and the caller got the failure placeholder
C18_Witness ==
    /\ SvgSettled
    /\ svgResponse.kind = "throw"
    /\ svgResult = Returned(FailedSvg)

\* the caller of each segment but the first, in a list in drawing order: the
\* last segment before it that is one level up
Callers(segs) ==
    [j \in 2..Len(segs) |->
        LET above == {i \in 1..(j - 1) : segs[i].currentDepth = segs[j].currentDepth - 1}
        IN  IF above = {} THEN 0 ELSE CHOOSE i \in above : \A k \in above : k <= i]

\* C19: a call with remaining depth >= 1 emits exactly 2 children, at +angle
\* and -angle, or exactly 3, at +angle, -angle and 0, when branchCount > 2,
\* each with the parent's full length times lengthMultiplier, the remaining
\* depth less one and the current depth plus one; a call with remaining depth
\* < 1 emits none.  On every segment currentDepth + remaining depth is the
\* configured depth and 0 <= currentDepth <= depth
C19_ChildrenOfEachCall ==
    Drawn =>
        LET segs == Segments(frame)
            caller == Callers(segs)
            expected == IF params.branchCount > 2
                        THEN <<params.angle, 0 - params.angle, 0>>
                        ELSE <<params.angle, 0 - params.angle>>
        IN  /\ segs[1].currentDepth = 0
            /\ \A j \in 2..Len(segs) : caller[j] # 0
            /\ \A i \in 1..Len(segs) :
                  LET children == {j \in 2..Len(segs) : caller[j] = i}
                  IN  /\ segs[i].currentDepth + segs[i].depth = params.depth
                      /\ segs[i].currentDepth >= 0
                      /\ segs[i].currentDepth <= params.depth
                      /\ segs[i].depth < 1 => children = {}
                      /\ segs[i].depth >= 1 =>
                            /\ Cardinality(children) = Len(expected)
                            /\ \A j \in children :
                                  /\ segs[j].angle =
                                        expected[Cardinality({k \in children : k <= j})]
                                  /\ segs[j].len = segs[i].len * params.lengthMultiplier
                                  /\ segs[j].depth = segs[i].depth - 1
                                  /\ segs[j].currentDepth = segs[i].currentDepth + 1

\* a ternary tree of the greatest depth: calls with three children at every
\* level but the last, whose calls have none
C19_Witness ==
    /\ Drawn
    /\ params.branchCount = 3
    /\ params.depth = MaxTreeDepth
    /\ \E i \in 1..Len(Segments(frame)) :
          Segments(frame)[i].depth = 0 /\ Segments(frame)[i].currentDepth = MaxTreeDepth
    /\ \E i \in 1..Len(Segments(frame)) :
          Segments(frame)[i].angle = 0 /\ Segments(frame)[i].currentDepth = 1

\* the before/after comparison is shown
ComparisonShown == selectedImage # None /\ generatedImage # None

\* C20: whenever the comparison is shown, generatedImage is the result of an
\* edit request issued for the image that is selected, also when the image
\* was removed, a history item loaded or another image uploaded while a
\* request was outstanding
C20_ComparisonMatches ==
    ComparisonShown => generatedImage.of = selectedImage.data

\* a placeholder of generateSvgFromPrompt
Placeholder(svg) == svg \in {ErrorSvg, FailedSvg}

\* C21: an item is added to the generation history only when the generation
\* succeeded: neither placeholder of generateSvgFromPrompt is ever stored in
\* the history
C21_NoPlaceholderInHistory ==
    \A k \in 1..Len(designerHistory) : ~Placeholder(designerHistory[k].svg)

\* C22: the mounted fractal view has at most one animation-frame callback
\* pending at any time: every new request follows the run or the cancellation
\* of the one before, and the pending request is the one animationRef holds
C22_OneFramePending ==
    /\ Cardinality(pending) <= 1
    /\ mounted => \A req \in pending : req.id = animationRef

\* a frame request made by the effect after a wind toggle cancelled the one
\* the running loop had made, the tree half grown
C22_Witness ==
    /\ mounted
    /\ Drawn
    /\ enableWind
    /\ growth > 0
    /\ Cardinality(pending) = 1
    /\ \E req \in pending : req.id = animationRef /\ req.env.enableWind /\ req.id > 1

\* C23: in the AI designer and in the image editor at most one AI request is
\* outstanding at any time: a second request cannot be started until the
\* first has completed and cleared isLoading
C23_OneRequestOutstanding ==
    /\ Len(svgRequests) <= 1
    /\ Len(editRequests) <= 1

\* C24: an image-edit request that rejects ends with isLoading false, the
\* error message set, generatedImage still null and the history unchanged
C24_RejectLeavesNoImage ==
    [][EditReject =>
            /\ ~editorLoading'
            /\ editorError' = Message("Failed to process. Try a different prompt.")
            /\ generatedImage' = None
            /\ editorHistory' = editorHistory]_vars

\* C25: for every growth value and wind state each non-trunk segment starts
\* exactly at the end of its parent as drawn: its offset along the parent's
\* axis is the parent's drawn length, not its full length; the trunk starts
\* at the origin
C25_ChildStartsAtDrawnEnd ==
    Drawn =>
        LET segs == Segments(frame)
            caller == Callers(segs)
        IN  /\ segs[1].start = Origin
            /\ \A j \in 2..Len(segs) :
                  /\ caller[j] # 0
                  /\ segs[j].start.len * segs[j].start.scale
                        = drawnLen(segs[caller[j]])

\* a partially grown tree swaying in the wind: the parents are drawn shorter
\* than their full length
C25_Witness ==
    /\ Drawn
    /\ enableWind
    /\ time > 0
    /\ growth > 0
    /\ GrowthScale(growth, params.depth) < FullScale
    /\ params.depth = MaxTreeDepth
    /\ \E j \in 2..Len(Segments(frame)) :
          /\ Segments(frame)[j].currentDepth = 2
          /\ Segments(frame)[j].start.len * Segments(frame)[j].start.scale > 0
          /\ Segments(frame)[j].start.len * Segments(frame)[j].start.scale
                < Segments(frame)[j].start.len * FullScale

\* a frame drawn from a closure in which growth has reached 1
GrownFrame == Drawn /\ frame.env.growth = GrowthMax

\* C26: once growth has reached 1 every segment of the tree is
\* drawn at its full remaining length, for every depth of the depth control
C26_FullLengthWhenGrown ==
    GrownFrame =>
        \A i \in 1..Len(Segments(frame)) :
            drawnLen(Segments(frame)[i]) = Segments(frame)[i].len * FullScale

\* new is old with one item put in front and what lies beyond the fifth
\* place dropped
Pushed(old, new) ==
    /\ Len(new) = Min(Len(old) + 1, 5)
    /\ \A k \in 1..(Len(new) - 1) : new[k + 1] = old[k]

\* C27: after any sequence of generate requests and history loads each of
\* the two histories holds at most 5 items, newest first: a step of a mounted
\* view leaves its history as it is or puts the new item in front of the
\* items it held, and with 5 items held the oldest is dropped
C27_HistoryBounded ==
    [][/\ Len(designerHistory') <= 5
       /\ Len(editorHistory') <= 5
       /\ \A k \in 1..(Len(designerHistory') - 1) :
             designerHistory'[k].timestamp > designerHistory'[k + 1].timestamp
       /\ (mode' = mode /\ designerHistory' # designerHistory)
             => /\ Pushed(designerHistory, designerHistory')
                /\ Markup(designerHistory'[1].svg) = currentSvg'
       /\ (mode' = mode /\ editorHistory' # editorHistory)
             => /\ Pushed(editorHistory, editorHistory')
                /\ editorHistory'[1].edited = generatedImage']_vars

\* a sixth item was stored in the AI designer: the first one is gone
C27_Witness ==
    /\ mode = "AI_GENERATIVE"
    /\ Len(designerHistory) = 5
    /\ designerHistory[1].timestamp = 6
    /\ designerHistory[5].timestamp = 2

=============================================================================
